---- MODULE Spec2Model ----
(***************************************************************************)
(* Timeline2GPX (convert.py): one run of main().  The run checks its two   *)
(* preconditions, creates the output directory, flattens the timelinePath  *)
(* points of the input's semantic segments, sorts them by time, and scans  *)
(* the sorted list once, writing chunks through the closure dump().        *)
(*                                                                         *)
(* Strings are sequences of tokens: a path such as "d/out.gpx" is          *)
(* <<"d", "/", "out", ".gpx">>.  A timezone-aware datetime is a record     *)
(* [t, off]: t is the instant in ticks, off the UTC offset in ticks, and a *)
(* calendar day has TicksPerDay ticks.  Python indices are kept 0-based.   *)
(***************************************************************************)
EXTENDS Integers, Sequences, FiniteSets

\* ---------------------------------------------------------------- bounds
MaxTime == 1
MaxPoints == 3
MaxCount == 2
MaxDays == 1

\* A calendar day, in ticks; a UTC offset is 0 or half a day.
TicksPerDay == 2

\* argparse defaults: -c and -d default to -1; -s and -e default to None,
\* written here as a value no date takes.
NoLimit == 0 - 1
None == 0 - 1

Instants == 0..MaxTime
Offsets == {0, TicksPerDay \div 2}
Dates == 0..((MaxTime + TicksPerDay \div 2) \div TicksPerDay)

SeqsUpTo(S, n) == UNION { [1..k -> S] : k \in 0..n }

\* ---------------------------------------------------------- Python helpers
\* seq[a:b] and seq[a:] with 0-based indices 0 <= a <= b <= len(seq).
Slice(seq, a, b) == SubSeq(seq, a + 1, b)

SliceFrom(seq, a) == SubSeq(seq, a + 1, Len(seq))

\* seq[k], 0-based.
At(seq, k) == seq[k + 1]

\* datetime.date() of an aware datetime: the calendar day in the datetime's
\* own UTC offset.
date(dt) == (dt.t + dt.off) \div TicksPerDay

\* The datetimes of the input.  A nonzero offset is kept where it moves the
\* calendar date; elsewhere the datetime behaves as the one with offset 0.
Datetimes ==
    { dt \in [t : Instants, off : Offsets] :
        dt.off = 0 \/ date(dt) # date([t |-> dt.t, off |-> 0]) }

\* (a.date() - b.date()).days
days_between(a, b) == date(a) - date(b)

\* Mutant of time_lt: equal instants count as out of order, so the sort
\* swaps points of equal time.
time_le(a, b) == a.t <= b.t

\* Aware datetimes compare by instant, whatever their offsets.
time_lt(a, b) == a.t < b.t

\* sorted(points, key=lambda x: x['time']): a stable sort, here insertion of
\* each element after the elements that are not later than it.
RECURSIVE insert_sorted(_, _)
insert_sorted(seq, p) ==
    IF seq = <<>> THEN <<p>>
    ELSE IF time_lt(p["time"], seq[Len(seq)]["time"])
         THEN Append(insert_sorted(SubSeq(seq, 1, Len(seq) - 1), p), seq[Len(seq)])
         ELSE Append(seq, p)

RECURSIVE sorted(_)
sorted(seq) ==
    IF seq = <<>> THEN <<>>
    ELSE insert_sorted(sorted(SubSeq(seq, 1, Len(seq) - 1)), seq[Len(seq)])

\* ------------------------------------------------------------------ paths
InputPath == <<"timeline", ".json">>

OutputPaths == { <<"out", ".gpx">>, <<"d", "/", "out">> }

Digit(d) == <<"0", "1", "2", "3", "4", "5", "6", "7", "8", "9">>[d + 1]

\* f"_{output_number:05}": an underscore and five zero-padded digits.
seq_suffix(n) ==
    <<"_", Digit((n \div 10000) % 10), Digit((n \div 1000) % 10),
      Digit((n \div 100) % 10), Digit((n \div 10) % 10), Digit(n % 10)>>

\* str.endswith(".gpx")
endswith_gpx(path) == path # <<>> /\ path[Len(path)] = ".gpx"

\* str.replace(".gpx", new): every occurrence is replaced.
RECURSIVE replace_gpx(_, _)
replace_gpx(path, new) ==
    IF path = <<>> THEN <<>>
    ELSE (IF path[1] = ".gpx" THEN new ELSE <<path[1]>>)
         \o replace_gpx(SubSeq(path, 2, Len(path)), new)

\* The name dump() gives the file numbered n.
output_name(output, n) ==
    IF endswith_gpx(output)
    THEN replace_gpx(output, seq_suffix(n) \o <<".gpx">>)
    ELSE output \o seq_suffix(n) \o <<".gpx">>

\* Positions of the "/" tokens of a path.
Slashes(path) == { k \in 1..Len(path) : path[k] = "/" }

\* os.path.basename(path) != path
has_dirname(path) == Slashes(path) # {}

\* os.path.dirname(path), for a path with a directory component.
dirname(path) ==
    SubSeq(path, 1, (CHOOSE k \in Slashes(path) : \A j \in Slashes(path) : j <= k) - 1)

\* The directories os.makedirs(dir, exist_ok=True) leaves in existence: dir
\* and each of its ancestors.
makedirs(dir) == { SubSeq(dir, 1, k - 1) : k \in Slashes(dir) } \cup {dir}

\* ------------------------------------------------------------------ state
VARIABLES
    args,           \* the parsed command line
    fs,             \* the paths that exist
    fs0,            \* history: the paths that existed when the run started
    pc,             \* position of main()
    log,            \* the logging.error entries
    opened,         \* history: open(args.input) was reached
    no_path_seen,   \* history: a segment without a timelinePath was read
    timeline_path,  \* history: every timelinePath point of the input, in source order
    points,         \* main's list `points`
    start,          \* main's `start`
    i,              \* the loop variable of the scan
    stopped_at,     \* history: the index at which the scan hit `break`, or None
    output_number,  \* the counter of dump()
    written,        \* history: the dump_gpx calls of the run, in order
    dump_calls,     \* history: the dump() calls of the run, in order
    flushes         \* history: the dump() calls made inside the scan loop

vars == <<args, fs, fs0, pc, log, opened, no_path_seen, timeline_path,
          points, start, i, stopped_at, output_number, written, dump_calls, flushes>>

\* ------------------------------------------------------------------ input
\* A semantic segment either carries a timelinePath or is of another kind (a
\* visit, an activity), whose own location the program never reads.  The raw
\* points of the input carry distinct coordinates, numbered in source order.
PathSegment(times, first) ==
    [has_path |-> TRUE,
     timelinePath |-> [j \in 1..Len(times) |->
                         [point |-> <<first + j, first + j>>, time |-> times[j]]]]

VisitSegment == [has_path |-> FALSE, timelinePath |-> <<>>]

\* lines 72-78: the points one segment appends to `points`.
flatten(segment) ==
    IF segment.has_path
    THEN [j \in 1..Len(segment.timelinePath) |->
            [time |-> segment.timelinePath[j].time,
             latitude |-> segment.timelinePath[j].point[1],
             longitude |-> segment.timelinePath[j].point[2]]]
    ELSE <<>>

\* ----------------------------------------------------------------- writer
\* The state dump() and dump_gpx() act on, threaded through the calls of one
\* step: w = [fs, output_number, written, dump_calls].
Writer == [fs |-> fs, output_number |-> output_number, written |-> written,
           dump_calls |-> dump_calls]

\* dump_gpx(points, output_file): the file is created or overwritten.
dump_gpx(w, points_to_dump, output_file) ==
    [w EXCEPT !.fs = @ \cup {output_file},
              !.written = Append(@, [name |-> output_file, points |-> points_to_dump])]

\* Mutant of dump_guard: no guard at all.
dump_guard_always(points_to_dump) == TRUE

\* The guard of dump(), line 54: it reads the enclosing `points`, not its argument.
dump_guard(points_to_dump) == Len(points) > 0

\* dump(points_to_dump), lines 52-60.
dump(w, points_to_dump) ==
    IF dump_guard(points_to_dump)
    THEN [dump_gpx(w, points_to_dump, output_name(args.output, w.output_number))
            EXCEPT !.output_number = @ + 1,
                   !.dump_calls = Append(@, [n |-> Len(points_to_dump), wrote |-> TRUE])]
    ELSE [w EXCEPT !.dump_calls = Append(@, [n |-> Len(points_to_dump), wrote |-> FALSE])]

\* ------------------------------------------------------------------- scan
\* The part of the loop body after the two filters acts on
\* s = [start, w, flushes].
\* Mutant of count_hit: the limit must be exceeded, not reached.
count_hit_late(anchor, idx) == args.count > 0 /\ idx - anchor > args.count

count_hit(anchor, idx) == args.count > 0 /\ idx - anchor >= args.count

days_hit(anchor, idx) ==
    args.days > 0
    /\ days_between(At(points, idx)["time"], At(points, anchor)["time"]) >= args.days

flush(s, idx, why) ==
    [start |-> idx,
     w |-> dump(s.w, Slice(points, s.start, idx)),
     flushes |-> Append(s.flushes, [i |-> idx, anchor |-> s.start, by |-> why])]

\* lines 108-110
count_check(s, idx) == IF count_hit(s.start, idx) THEN flush(s, idx, "count") ELSE s

\* lines 112-114
days_check(s, idx) == IF days_hit(s.start, idx) THEN flush(s, idx, "days") ELSE s

\* Mutant of checks: the day check is made against the anchor the iteration
\* entered with.
checks_on_entry_anchor(s, idx) ==
    IF days_hit(s.start, idx)
    THEN flush(count_check(s, idx), idx, "days")
    ELSE count_check(s, idx)

\* lines 107-114: the count check, then the day check on what it left.
checks(s, idx) == days_check(count_check(s, idx), idx)

\* line 101
before_start(p) == args.start # None /\ date(p["time"]) < args.start

\* line 105
after_end(p) == args.end # None /\ date(p["time"]) > args.end

\* Mutant of final_chunk: the slice stops one point short.
final_chunk_drops_last(pts, anchor) == Slice(pts, anchor, Len(pts) - 1)

\* line 115: the chunk of the final dump.
final_chunk(pts, anchor) == SliceFrom(pts, anchor)

\* ------------------------------------------------------------------- Init
ArgsOf(outputs, counts, dayss, starts, ends) ==
    [input : {InputPath}, output : outputs, count : counts, days : dayss,
     start : starts, end : ends]

AllArgs ==
    ArgsOf(OutputPaths, {NoLimit} \cup 1..MaxCount, {NoLimit} \cup 1..MaxDays,
           {None} \cup Dates, {None} \cup Dates)

\* What may exist before a run: the input, the base output path, and the
\* first file an earlier run with the same -o left behind.
FileSystems(a) ==
    { ins \cup outs : ins \in {{}, {a.input}},
                      outs \in {{}, {a.output}, {output_name(a.output, 0)}} }

InitWith(argset) ==
    /\ args \in argset
    /\ fs \in FileSystems(args)
    /\ fs0 = fs
    /\ pc = "check_output"
    /\ log = <<>>
    /\ opened = FALSE
    /\ no_path_seen = FALSE
    /\ timeline_path = <<>>
    /\ points = <<>>
    /\ start = 0
    /\ i = 0
    /\ stopped_at = None
    /\ output_number = 0
    /\ written = <<>>
    /\ dump_calls = <<>>
    /\ flushes = <<>>

Init == InitWith(AllArgs)

\* Runs whose preconditions hold, under every setting of -c, -d, -s and -e.
InitScan == InitWith(AllArgs) /\ fs = {args.input}

\* Runs with no limit and no filter, over every file system.
InitFiles == InitWith(ArgsOf(OutputPaths, {NoLimit}, {NoLimit}, {None}, {None}))

\* ---------------------------------------------------------------- actions
\* Mutant of CheckOutput: the error is logged and the run goes on.
CheckOutput_no_return ==
    /\ pc = "check_output"
    /\ log' = IF args.output \in fs THEN Append(log, "output_exists") ELSE log
    /\ pc' = "check_input"
    /\ UNCHANGED <<args, fs, fs0, opened, no_path_seen, timeline_path, points, start,
                   i, stopped_at, output_number, written, dump_calls, flushes>>

\* lines 40-42
CheckOutput ==
    /\ pc = "check_output"
    /\ IF args.output \in fs
       THEN /\ log' = Append(log, "output_exists")
            /\ pc' = "returned"
       ELSE /\ log' = log
            /\ pc' = "check_input"
    /\ UNCHANGED <<args, fs, fs0, opened, no_path_seen, timeline_path, points, start,
                   i, stopped_at, output_number, written, dump_calls, flushes>>

\* lines 43-45
CheckInput ==
    /\ pc = "check_input"
    /\ IF args.input \notin fs
       THEN /\ log' = Append(log, "input_missing")
            /\ pc' = "returned"
       ELSE /\ log' = log
            /\ pc' = "makedirs"
    /\ UNCHANGED <<args, fs, fs0, opened, no_path_seen, timeline_path, points, start,
                   i, stopped_at, output_number, written, dump_calls, flushes>>

\* lines 46-47
MakeDirs ==
    /\ pc = "makedirs"
    /\ fs' = IF has_dirname(args.output) THEN fs \cup makedirs(dirname(args.output)) ELSE fs
    /\ pc' = "open"
    /\ UNCHANGED <<args, fs0, log, opened, no_path_seen, timeline_path, points, start,
                   i, stopped_at, output_number, written, dump_calls, flushes>>

\* lines 63-66
Open ==
    /\ pc = "open"
    /\ opened' = TRUE
    /\ pc' = "segments"
    /\ UNCHANGED <<args, fs, fs0, log, no_path_seen, timeline_path, points, start,
                   i, stopped_at, output_number, written, dump_calls, flushes>>

\* lines 67-78: one iteration of the loop over the segments.
ReadSegment(segment) ==
    /\ pc = "segments"
    /\ points' = points \o flatten(segment)
    /\ timeline_path' = timeline_path \o
           [j \in 1..Len(segment.timelinePath) |->
              [time |-> segment.timelinePath[j].time,
               latitude |-> segment.timelinePath[j].point[1],
               longitude |-> segment.timelinePath[j].point[2]]]
    /\ no_path_seen' = (no_path_seen \/ ~segment.has_path)
    /\ UNCHANGED <<args, fs, fs0, pc, log, opened, start, i, stopped_at, output_number,
                   written, dump_calls, flushes>>

\* lines 97-99: the loop over the segments is over; sort, and enter the scan.
Sort ==
    /\ pc = "segments"
    /\ points' = sorted(points)
    /\ start' = 0
    /\ i' = 1
    /\ pc' = IF 1 < Len(points) THEN "scan" ELSE "final"
    /\ UNCHANGED <<args, fs, fs0, log, opened, no_path_seen, timeline_path, stopped_at,
                   output_number, written, dump_calls, flushes>>

\* lines 99-114: one iteration of the scan.
ScanStep ==
    /\ pc = "scan"
    /\ LET p == At(points, i)
           next == IF i + 1 < Len(points) THEN "scan" ELSE "final"
       IN IF before_start(p)
          THEN /\ start' = i
               /\ i' = i + 1
               /\ pc' = next
               /\ UNCHANGED <<fs, stopped_at, output_number, written, dump_calls, flushes>>
          ELSE IF after_end(p)
          THEN /\ stopped_at' = i
               /\ pc' = "final"
               /\ UNCHANGED <<fs, start, i, output_number, written, dump_calls, flushes>>
          ELSE LET s == checks([start |-> start, w |-> Writer, flushes |-> flushes], i)
               IN /\ start' = s.start
                  /\ fs' = s.w.fs
                  /\ output_number' = s.w.output_number
                  /\ written' = s.w.written
                  /\ dump_calls' = s.w.dump_calls
                  /\ flushes' = s.flushes
                  /\ i' = i + 1
                  /\ pc' = next
                  /\ UNCHANGED stopped_at
    /\ UNCHANGED <<args, fs0, log, opened, no_path_seen, timeline_path, points>>

\* line 115
FinalDump ==
    /\ pc = "final"
    /\ LET w == dump(Writer, final_chunk(points, start))
       IN /\ fs' = w.fs
          /\ output_number' = w.output_number
          /\ written' = w.written
          /\ dump_calls' = w.dump_calls
    /\ pc' = "done"
    /\ UNCHANGED <<args, fs0, log, opened, no_path_seen, timeline_path, points, start,
                   i, stopped_at, flushes>>

Next ==
    \/ CheckOutput
    \/ CheckInput
    \/ MakeDirs
    \/ Open
    \/ \E times \in SeqsUpTo(Datetimes, MaxPoints - Len(timeline_path)) :
          ReadSegment(PathSegment(times, Len(timeline_path)))
    \/ ReadSegment(VisitSegment)
    \/ Sort
    \/ ScanStep
    \/ FinalDump

Spec == Init /\ [][Next]_vars

SpecScan == InitScan /\ [][Next]_vars

SpecFiles == InitFiles /\ [][Next]_vars

\* ----------------------------------------------------------------- claims
\* The points of the chunks written so far, in emission order.
RECURSIVE ConcatChunks(_)
ConcatChunks(files) ==
    IF files = <<>> THEN <<>>
    ELSE ConcatChunks(SubSeq(files, 1, Len(files) - 1)) \o files[Len(files)].points

Elems(seq) == { seq[k] : k \in 1..Len(seq) }

WrittenPoints == UNION { Elems(written[k].points) : k \in 1..Len(written) }

\* seq is ascending by instant, and points of equal instant stand in source
\* order (the latitude of a point is its ordinal in the input).
AscendingStable(seq) ==
    \A a, b \in 1..Len(seq) :
        a < b => \/ seq[a]["time"].t < seq[b]["time"].t
                 \/ /\ seq[a]["time"].t = seq[b]["time"].t
                    /\ seq[a].latitude < seq[b].latitude

\* C1: with an end date set, once the scan stops at an index whose point is
\* dated after the end date, neither that point nor any later point of the
\* sorted sequence is in a written chunk.
C1_PointsAfterEndAreDropped ==
    (pc = "done" /\ args.end # None /\ stopped_at # None)
        => \A j \in stopped_at..(Len(points) - 1) : At(points, j) \notin WrittenPoints

\* C2: with only a start date set and a point at sorted index >= 1 dated
\* before it, no written chunk holds a point dated before the start date.
C2_NoPointBeforeStartIsWritten ==
    ( /\ pc = "done"
      /\ args.start # None /\ args.end = None
      /\ args.count = NoLimit /\ args.days = NoLimit
      /\ \E j \in 1..(Len(points) - 1) : date(At(points, j)["time"]) < args.start )
        => \A p \in WrittenPoints : date(p["time"]) >= args.start

\* C3: with no start and no end date, the chunks written by a finished run,
\* concatenated in emission order, are the time-ascending stable sort of the
\* timelinePath points of the input: every such point once, and nothing else.
C3_ChunksAreTheSortedTimelinePath ==
    (pc = "done" /\ args.start = None /\ args.end = None)
        => LET out == ConcatChunks(written)
           IN /\ Len(out) = Len(timeline_path)
              /\ Elems(out) = Elems(timeline_path)
              /\ AscendingStable(out)

\* C3 witness: a finished unfiltered run over an input that was not in time
\* order and held a segment without a timelinePath, written as several chunks.
C3_Witness ==
    /\ pc = "done" /\ args.start = None /\ args.end = None
    /\ no_path_seen
    /\ points # timeline_path
    /\ Len(written) >= 2

\* C4: with a day limit D, the first and the last point of every written
\* chunk are less than D calendar days apart.
C4_ChunkSpanBelowDayLimit ==
    args.days > 0
        => \A k \in 1..Len(written) :
              LET c == written[k].points
              IN c # <<>> => days_between(c[Len(c)]["time"], c[1]["time"]) < args.days

\* C5: with a count limit N and no day limit, every written chunk but the
\* last one written has exactly N points.
C5_NonFinalChunksHoldCountPoints ==
    (args.count > 0 /\ args.days <= 0)
        => \A k \in 1..(Len(written) - 1) : Len(written[k].points) = args.count

\* C5 witness: a finished run with count 2 that wrote a chunk before its last.
C5_Witness ==
    /\ pc = "done" /\ args.count = 2 /\ args.days <= 0
    /\ Len(written) >= 2

\* C6: when the base output path exists at the start, or the input path does
\* not, the run never gets past the two checks: nothing is written or created,
\* the input is never opened, and the run returns with one error logged, the
\* output-exists one whenever the output path exists.
C6_FailedPreconditionTouchesNothing ==
    (args.output \in fs0 \/ args.input \notin fs0)
        => /\ pc \in {"check_output", "check_input", "returned"}
           /\ fs = fs0
           /\ written = <<>>
           /\ ~opened
           /\ pc = "returned"
                => log = <<IF args.output \in fs0 THEN "output_exists" ELSE "input_missing">>

\* C6 witness: a run that returned with both preconditions failing.
C6_Witness ==
    /\ pc = "returned"
    /\ args.output \in fs0 /\ args.input \notin fs0

\* C7: a dump() call with an empty chunk writes no file; no written file is
\* empty, and the counter equals the number of files written.
C7_EmptyChunkWritesNothing ==
    /\ \A k \in 1..Len(dump_calls) : dump_calls[k].n = 0 => ~dump_calls[k].wrote
    /\ \A k \in 1..Len(written) : written[k].points # <<>>
    /\ output_number = Len(written)

\* C7 witness: a finished run whose final dump() was given an empty chunk.
C7_Witness ==
    /\ pc = "done"
    /\ \E k \in 1..Len(dump_calls) : dump_calls[k].n = 0

\* C8 as stated: the two checks are independent, so at an index where both
\* limits are reached on entry both checks flush a chunk.
C8_BothChecksFlushAtOneIndex ==
    \A a \in 1..Len(flushes) :
        (flushes[a].by = "count" /\ days_hit(flushes[a].anchor, flushes[a].i))
            => \E b \in 1..Len(flushes) :
                  flushes[b].i = flushes[a].i /\ flushes[b].by = "days"

\* C8 amended: the count check comes first and the day check is made against
\* the anchor it leaves; a flush by count needs the count reached, a flush by
\* days needs the day span reached from the anchor then current, and no index
\* sees two flushes.
C8_AtMostOneFlushPerIndex ==
    \A a \in 1..Len(flushes) :
        /\ flushes[a].by = "count"
              => args.count > 0 /\ flushes[a].i - flushes[a].anchor >= args.count
        /\ flushes[a].by = "days"
              => /\ args.days > 0
                 /\ days_between(At(points, flushes[a].i)["time"],
                                 At(points, flushes[a].anchor)["time"]) >= args.days
                 /\ ~(args.count > 0 /\ flushes[a].i - flushes[a].anchor >= args.count)
        /\ \A b \in 1..Len(flushes) : b # a => flushes[b].i # flushes[a].i

\* C8 witness: an index at which both limits were reached on entry and the
\* count check flushed.
C8_Witness ==
    /\ args.count > 0 /\ args.days > 0
    /\ \E a \in 1..Len(flushes) :
          flushes[a].by = "count" /\ days_hit(flushes[a].anchor, flushes[a].i)

C10_NoPreexistingFileIsWritten ==
    \A k \in 1..Len(written) : written[k].name \notin fs0

====
